---- MODULE Spec2Model ----
(***************************************************************************)
(* A model of the orbital-mechanics update of Eris: the body set held by   *)
(* State (src/src/state.rs), the per-frame State::update that accumulates  *)
(* pairwise gravitational accelerations and integrates every body, and     *)
(* the CBody constructor.                                                  *)
(*                                                                         *)
(* Numbers.  The program computes in f32.  The model computes in exact     *)
(* rationals extended with the IEEE special values the program can         *)
(* produce: a scalar is a pair <<n, d>>; d > 0 is the rational n/d in      *)
(* lowest terms, <<0, 0>> is NaN, <<1, 0>> is +Inf and <<-1, 0>> is -Inf.  *)
(* Rounding and finite-range overflow of f32 are not modelled.  TLC's      *)
(* integers are 32 bits wide, so a rational whose numerator or denominator *)
(* exceeds Limit, or an irrational square root, is the value Unrep; a tick *)
(* whose result holds Unrep is outside the model and is not taken.         *)
(***************************************************************************)
EXTENDS Integers, Sequences, FiniteSets, TLC

----------------------------------------------------------------------------
(* Bounds of the model *)

\* bodies start with integer coordinates in 0..MaxCoord on the x axis
MaxCoord == 2
\* initial velocities along the x axis lie in 0..MaxVel
MaxVel == 1
\* masses are 1..MaxMass
MaxMass == 2
\* radii are 1..MaxRadius
MaxRadius == 2
\* a tick's dt is a whole number of seconds in 0..MaxDt
MaxDt == 1
\* number of ticks explored from an initial state
MaxTicks == 2
\* largest numerator or denominator the model's arithmetic accepts
Limit == 30000

\* the number of bodies State::new pushes
NumBodies == 3

----------------------------------------------------------------------------
(* Scalars: f32 as extended rationals *)

NaN == <<0, 0>>
PInf == <<1, 0>>
NInf == <<-1, 0>>
Unrep == <<2, 0>>
Zero == <<0, 1>>
One == <<1, 1>>

Abs(n) == IF n < 0 THEN -n ELSE n

Sign(n) == IF n < 0 THEN -1 ELSE IF n > 0 THEN 1 ELSE 0

RECURSIVE GCD(_, _)
GCD(a, b) == IF b = 0 THEN a ELSE GCD(b, a % b)

\* n/d in lowest terms with a positive denominator (d # 0)
Norm(n, d) ==
    LET g == GCD(Abs(n), Abs(d))
        s == IF d < 0 THEN -1 ELSE 1
    IN  <<(s * n) \div g, Abs(d) \div g>>

FromInt(n) == <<n, 1>>

IsUnrep(x) == x = Unrep
IsNaN(x) == x = NaN
IsInf(x) == x = PInf \/ x = NInf
IsFinite(x) == x[2] > 0
Fits(x) == IsFinite(x) /\ Abs(x[1]) <= Limit /\ x[2] <= Limit
\* sign of any scalar but NaN and Unrep
RSign(x) == Sign(x[1])
InfOf(s) == IF s < 0 THEN NInf ELSE PInf

RNeg(x) == IF IsFinite(x) \/ IsInf(x) THEN <<-x[1], x[2]>> ELSE x

RMul(x, y) ==
    IF IsFinite(x) /\ IsFinite(y)
    THEN IF ~(Fits(x) /\ Fits(y)) THEN Unrep
         ELSE IF x[1] = 0 \/ y[1] = 0 THEN Zero
         ELSE Norm(x[1] * y[1], x[2] * y[2])
    ELSE IF IsUnrep(x) \/ IsUnrep(y) THEN Unrep
    ELSE IF IsNaN(x) \/ IsNaN(y) THEN NaN
    ELSE IF RSign(x) * RSign(y) = 0 THEN NaN
    ELSE InfOf(RSign(x) * RSign(y))

RDiv(x, y) ==
    IF IsFinite(x) /\ IsFinite(y)
    THEN IF y[1] = 0 THEN (IF x[1] = 0 THEN NaN ELSE InfOf(RSign(x)))
         ELSE IF ~(Fits(x) /\ Fits(y)) THEN Unrep
         ELSE IF x[1] = 0 THEN Zero
         ELSE Norm(x[1] * y[2], x[2] * y[1])
    ELSE IF IsUnrep(x) \/ IsUnrep(y) THEN Unrep
    ELSE IF IsNaN(x) \/ IsNaN(y) THEN NaN
    ELSE IF IsInf(y) THEN (IF IsInf(x) THEN NaN ELSE Zero)
    ELSE InfOf(RSign(x) * (IF RSign(y) < 0 THEN -1 ELSE 1))

RAdd(x, y) ==
    IF IsFinite(x) /\ IsFinite(y)
    THEN IF ~(Fits(x) /\ Fits(y)) THEN Unrep
         ELSE IF x[1] = 0 THEN y
         ELSE IF y[1] = 0 THEN x
         ELSE Norm(x[1] * y[2] + y[1] * x[2], x[2] * y[2])
    ELSE IF IsUnrep(x) \/ IsUnrep(y) THEN Unrep
    ELSE IF IsNaN(x) \/ IsNaN(y) THEN NaN
    ELSE IF IsInf(x) /\ IsInf(y) THEN (IF x = y THEN x ELSE NaN)
    ELSE IF IsInf(x) THEN x
    ELSE y

RSub(x, y) == RAdd(x, RNeg(y))

\* the integer square root of n >= 0, by bisection on lo..hi
RECURSIVE ISqrtIn(_, _, _)
ISqrtIn(n, lo, hi) ==
    IF lo >= hi THEN lo
    ELSE LET mid == (lo + hi + 1) \div 2
         IN  IF mid * mid <= n THEN ISqrtIn(n, mid, hi) ELSE ISqrtIn(n, lo, mid - 1)

ISqrt(n) == ISqrtIn(n, 0, IF n < Limit THEN n ELSE Limit)

\* f32::sqrt: NaN below zero, exact where the root is rational
RSqrt(x) ==
    IF IsUnrep(x) THEN Unrep
    ELSE IF IsNaN(x) \/ x = NInf THEN NaN
    ELSE IF x = PInf THEN PInf
    ELSE IF x[1] < 0 THEN NaN
    ELSE LET n == ISqrt(x[1])
             d == ISqrt(x[2])
         IN  IF n * n = x[1] /\ d * d = x[2] THEN <<n, d>> ELSE Unrep

----------------------------------------------------------------------------
(* cgmath::Vector3<f32> *)

Vector3(x, y, z) == <<x, y, z>>

VAdd(a, b) == <<RAdd(a[1], b[1]), RAdd(a[2], b[2]), RAdd(a[3], b[3])>>

VSub(a, b) == <<RSub(a[1], b[1]), RSub(a[2], b[2]), RSub(a[3], b[3])>>

\* vector * scalar
VMul(a, s) == <<RMul(a[1], s), RMul(a[2], s), RMul(a[3], s)>>

\* vector / scalar
VDiv(a, s) == <<RDiv(a[1], s), RDiv(a[2], s), RDiv(a[3], s)>>

VNeg(a) == <<RNeg(a[1]), RNeg(a[2]), RNeg(a[3])>>

\* InnerSpace::magnitude2: the dot product of the vector with itself
magnitude2(a) == RAdd(RAdd(RMul(a[1], a[1]), RMul(a[2], a[2])), RMul(a[3], a[3]))

\* InnerSpace::magnitude
magnitude(a) == RSqrt(magnitude2(a))

\* InnerSpace::normalize: self * (1 / self.magnitude())
normalize(a) == VMul(a, RDiv(One, magnitude(a)))

VFinite(a) == IsFinite(a[1]) /\ IsFinite(a[2]) /\ IsFinite(a[3])

VHasUnrep(a) == IsUnrep(a[1]) \/ IsUnrep(a[2]) \/ IsUnrep(a[3])

ZeroVec == <<Zero, Zero, Zero>>

----------------------------------------------------------------------------
(* utils.rs and CBody *)

\* utils::G = 6.67e-11 * SIM_SCALE.  G enters update only as the factor of
\* a mass, so the model measures mass in the unit for which G is 1/2.
G == <<1, 2>>

\* CBody::new: the fields are stored as given
CBody_new(name, mass, radius, position, velocity) ==
    [name |-> name, mass |-> mass, radius |-> radius,
     position |-> position, velocity |-> velocity]

\* CBody::standard_gravitational_parameter
standard_gravitational_parameter(body) == RMul(G, body.mass)

\* escape_velocity without the factor 2
escape_velocity_without_two(body) ==
    RSqrt(RDiv(standard_gravitational_parameter(body), body.radius))

\* CBody::escape_velocity: sqrt(2 * G * mass / radius)
escape_velocity(body) ==
    RSqrt(RDiv(RMul(FromInt(2), standard_gravitational_parameter(body)),
               body.radius))

\* calculate_velocity_at_radius without the square root
velocity_at_radius_unrooted(body, r) ==
    RDiv(standard_gravitational_parameter(body), r)

\* CBody::calculate_velocity_at_radius: sqrt(G * mass / r)
calculate_velocity_at_radius(body, r) ==
    RSqrt(RDiv(standard_gravitational_parameter(body), r))

\* Duration::as_secs_f32 of a whole number of seconds
as_secs_f32(dt) == FromInt(dt)

\* CBody::update: the position advances by the velocity over dt
body_update(body, dt) ==
    [body EXCEPT !.position = VAdd(@, VMul(body.velocity, as_secs_f32(dt)))]

----------------------------------------------------------------------------
(* State::update *)

\* pair with the force taken for the acceleration (no division by body.mass)
pair_force_as_acceleration(body, body2) ==
    LET sqr_distance == magnitude2(VSub(body2.position, body.position))
        force_direction == normalize(VSub(body2.position, body.position))
        force == VDiv(VMul(VMul(force_direction,
                                standard_gravitational_parameter(body)),
                           body2.mass),
                      sqr_distance)
    IN  [sqr_distance |-> sqr_distance, force |-> force,
         acceleration |-> force]

\* the force and acceleration of body due to body2 (state.rs 301-306)
pair(body, body2) ==
    LET sqr_distance == magnitude2(VSub(body2.position, body.position))
        force_direction == normalize(VSub(body2.position, body.position))
        force == VDiv(VMul(VMul(force_direction,
                                standard_gravitational_parameter(body)),
                           body2.mass),
                      sqr_distance)
        acceleration == VDiv(force, body.mass)
    IN  [sqr_distance |-> sqr_distance, force |-> force,
         acceleration |-> acceleration]

\* others that iterates over every body, body i included
others_with_self(i, n) == [k \in 1..n |-> k]

\* others that pairs body i only with the bodies after it
others_after(i, n) == [k \in 1..(n - i) |-> i + k]

\* before.iter().chain(after.iter()): the indices other than i, in order
others(i, n) == [k \in 1..(n - 1) |-> IF k < i THEN k ELSE k + 1]

\* accumulate that also gives body2 the opposite acceleration
RECURSIVE accumulate_symmetric(_, _, _)
accumulate_symmetric(st, i, js) ==
    IF js = <<>> THEN st
    ELSE LET j == Head(js)
             body == st.bodies[i]
             body2 == st.bodies[j]
             p == pair(body, body2)
         IN  accumulate_symmetric(
                 [bodies |-> [st.bodies EXCEPT
                                 ![i].velocity = VAdd(@, p.acceleration),
                                 ![j].velocity = VSub(@, p.acceleration)],
                  log |-> st.log \o
                          <<[kind |-> "accumulate", i |-> i, j |-> j,
                             position |-> body.position,
                             position2 |-> body2.position,
                             mass |-> body.mass, mass2 |-> body2.mass,
                             force |-> p.force,
                             acceleration |-> p.acceleration],
                            [kind |-> "velocity", i |-> i]>>],
                 i, Tail(js))

\* accumulate that also moves the mass of body2 into body
RECURSIVE accumulate_absorbing_mass(_, _, _)
accumulate_absorbing_mass(st, i, js) ==
    IF js = <<>> THEN st
    ELSE LET j == Head(js)
             body == st.bodies[i]
             body2 == st.bodies[j]
             p == pair(body, body2)
         IN  accumulate_absorbing_mass(
                 [bodies |-> [st.bodies EXCEPT
                                 ![i].velocity = VAdd(@, p.acceleration),
                                 ![i].mass = RAdd(@, body2.mass)],
                  log |-> st.log \o
                          <<[kind |-> "accumulate", i |-> i, j |-> j,
                             position |-> body.position,
                             position2 |-> body2.position,
                             mass |-> body.mass, mass2 |-> body2.mass,
                             force |-> p.force,
                             acceleration |-> p.acceleration],
                            [kind |-> "velocity", i |-> i]>>],
                 i, Tail(js))

\* the inner loop of body i over the bodies js; st is [bodies, log], log
\* the record of what the tick has read and written so far
RECURSIVE accumulate(_, _, _)
accumulate(st, i, js) ==
    IF js = <<>> THEN st
    ELSE LET j == Head(js)
             body == st.bodies[i]
             body2 == st.bodies[j]
             p == pair(body, body2)
         IN  accumulate(
                 [bodies |-> [st.bodies EXCEPT
                                 ![i].velocity = VAdd(@, p.acceleration)],
                  log |-> st.log \o
                          <<[kind |-> "accumulate", i |-> i, j |-> j,
                             position |-> body.position,
                             position2 |-> body2.position,
                             mass |-> body.mass, mass2 |-> body2.mass,
                             force |-> p.force,
                             acceleration |-> p.acceleration],
                            [kind |-> "velocity", i |-> i]>>],
                 i, Tail(js))

\* iteration that calls body.update(dt) before the inner loop
iteration_integrate_first(st, i, dt) ==
    LET u == [bodies |-> [st.bodies EXCEPT ![i] = body_update(@, dt)],
              log |-> Append(st.log,
                             [kind |-> "integrate", i |-> i, dt |-> dt,
                              velocity |-> st.bodies[i].velocity])]
    IN  accumulate(u, i, others(i, Len(st.bodies)))

\* one iteration of the outer loop: accumulate, then body.update(dt); the
\* log keeps the velocity the body holds when body.update is called
iteration(st, i, dt) ==
    LET a == accumulate(st, i, others(i, Len(st.bodies)))
    IN  [bodies |-> [a.bodies EXCEPT ![i] = body_update(@, dt)],
         log |-> Append(a.log,
                        [kind |-> "integrate", i |-> i, dt |-> dt,
                         velocity |-> a.bodies[i].velocity])]

\* loop over 0..self.bodies.len() - 1
RECURSIVE loop_skipping_last(_, _, _)
loop_skipping_last(st, i, dt) ==
    IF i >= Len(st.bodies) THEN st
    ELSE loop_skipping_last(iteration(st, i, dt), i + 1, dt)

\* for i in 0..self.bodies.len()
RECURSIVE loop(_, _, _)
loop(st, i, dt) ==
    IF i > Len(st.bodies) THEN st ELSE loop(iteration(st, i, dt), i + 1, dt)

\* the inner loop of every body, none of them integrated
RECURSIVE accumulate_all(_, _)
accumulate_all(st, i) ==
    IF i > Len(st.bodies) THEN st
    ELSE accumulate_all(accumulate(st, i, others(i, Len(st.bodies))), i + 1)

\* body.update(dt) of every body
RECURSIVE integrate_all(_, _, _)
integrate_all(st, i, dt) ==
    IF i > Len(st.bodies) THEN st
    ELSE integrate_all(
             [bodies |-> [st.bodies EXCEPT ![i] = body_update(@, dt)],
              log |-> Append(st.log,
                             [kind |-> "integrate", i |-> i, dt |-> dt,
                              velocity |-> st.bodies[i].velocity])],
             i + 1, dt)

\* tick in two passes: every velocity first, then every position
tick_two_pass(bs, dt) ==
    integrate_all(accumulate_all([bodies |-> bs, log |-> <<>>], 1), 1, dt)

\* tick that drops the last body once the loop is done
tick_dropping_last(bs, dt) ==
    LET r == loop([bodies |-> bs, log |-> <<>>], 1, dt)
    IN  [bodies |-> SubSeq(r.bodies, 1, Len(r.bodies) - 1), log |-> r.log]

\* the bodies and the log after one call of State::update
tick(bs, dt) == loop([bodies |-> bs, log |-> <<>>], 1, dt)

----------------------------------------------------------------------------
(* State *)

VARIABLES
    bodies,     \* State.bodies: Vec<CBody>
    started,    \* history: the bodies as State::new left them
    prev,       \* history: the bodies when the last tick began
    lastDt,     \* history: the dt of the last tick
    log,        \* history: the reads and writes of the last tick
    ticks,      \* history: the number of ticks so far
    elapsed,    \* history: the sum of the dt of all ticks so far
    size,               \* State.size: winit PhysicalSize<u32>
    mouse_pressed,      \* State.mouse_pressed
    camera_controller,  \* State.camera_controller
    last_update,        \* main: the Instant of the last redraw, in seconds
    control_flow,       \* main: *control_flow
    redraw_pending,     \* winit: a RedrawRequested event is due
    event,              \* history: the last event the loop handled
    calls,              \* history: the State methods the last step called
    astro,              \* the last astrodynamics value computed
    camera,             \* State.camera: yaw and pitch
    builder,            \* a RenderPipelineBuilder
    build_result,       \* what the last call of build returned
    created             \* how many render pipelines the device has created

bodyVars == <<bodies, started, prev, lastDt, log, ticks, elapsed>>

stateVars == <<size, mouse_pressed, camera_controller, camera>>

loopVars == <<last_update, control_flow, redraw_pending, event, calls>>

pipelineVars == <<builder, build_result, created>>

vars == <<bodyVars, stateVars, loopVars, astro, pipelineVars>>

Coords == 0..MaxCoord
Vels == 0..MaxVel
Masses == 1..MaxMass
Radii == 1..MaxRadius
Dts == 0..MaxDt

OnAxis(x) == Vector3(FromInt(x), Zero, Zero)

\* the sets of n bodies a session can start with: positive masses, radii
\* drawn from rs, positions and velocities on the x axis
BodySetsOf(n, rs) == [1..n -> [mass : Masses, radius : rs, x : Coords, v : Vels]]

BodySets == UNION {BodySetsOf(n, {1}) : n \in 1..NumBodies}

MakeBodies(f) ==
    [k \in DOMAIN f |->
        CBody_new(k, FromInt(f[k].mass), FromInt(f[k].radius),
                  OnAxis(f[k].x), OnAxis(f[k].v))]

\* CameraController::new: nothing pressed, no pending rotation
CameraController_new ==
    [moving |-> {}, rotate_horizontal |-> 0, rotate_vertical |-> 0]

\* std::f32::consts::FRAC_PI_2, as the rational 11/7
FRAC_PI_2 == <<11, 7>>

\* Camera::new: yaw -90 degrees, pitch 0
Camera_new == [yaw |-> RNeg(FRAC_PI_2), pitch |-> Zero]

\* Option: None is the empty sequence, Some(x) the sequence of x
None == <<>>

Some(x) == <<x>>

\* RenderPipelineBuilder::new: nothing supplied, a triangle list
RenderPipelineBuilder_new ==
    [layout |-> None, vertex_shader_source |-> None,
     fragment_shader_source |-> None, primitive_topology |-> "TriangleList"]

\* what State::new and main set up beside the bodies
InitRest ==
    /\ camera = Camera_new
    /\ builder = RenderPipelineBuilder_new
    /\ build_result = [called |-> FALSE]
    /\ created = 0
    /\ size = <<1, 1>>
    /\ mouse_pressed = FALSE
    /\ camera_controller = CameraController_new
    /\ last_update = 0
    /\ control_flow = "Poll"
    /\ redraw_pending = TRUE
    /\ event = "none"
    /\ calls = <<>>
    /\ astro = [fn |-> "none"]

\* the state State::new leaves, for an initial body set drawn from S
InitFrom(S) ==
    /\ \E f \in S : bodies = MakeBodies(f)
    /\ started = bodies
    /\ prev = bodies
    /\ lastDt = 0
    /\ log = <<>>
    /\ ticks = 0
    /\ elapsed = 0
    /\ InitRest

Init == InitFrom(BodySets)

BodyHasUnrep(b) == VHasUnrep(b.position) \/ VHasUnrep(b.velocity)

Representable(bs) == \A k \in DOMAIN bs : ~BodyHasUnrep(bs[k])

\* CameraController::update_camera, as far as the controller goes: the
\* pending mouse rotation is consumed (camera.rs 222-223)
update_camera(cc) ==
    [cc EXCEPT !.rotate_horizontal = 0, !.rotate_vertical = 0]

\* CameraController.sensitivity, as State::new gives it
sensitivity == <<1, 5>>

\* update_camera_angles without the clamp of the pitch
update_camera_angles_unclamped(cam, cc, dt) ==
    [yaw |-> RAdd(cam.yaw,
                  RMul(RMul(FromInt(cc.rotate_horizontal), sensitivity),
                       as_secs_f32(dt))),
     pitch |-> RAdd(cam.pitch,
                    RMul(RMul(FromInt(-cc.rotate_vertical), sensitivity),
                         as_secs_f32(dt)))]

\* CameraController::update_camera, as far as the angles of the camera go:
\* the pending rotation is added, then the pitch is clamped
\* (camera.rs 216-231)
update_camera_angles(cam, cc, dt) ==
    LET yaw == RAdd(cam.yaw,
                    RMul(RMul(FromInt(cc.rotate_horizontal), sensitivity),
                         as_secs_f32(dt)))
        pitch == RAdd(cam.pitch,
                      RMul(RMul(FromInt(-cc.rotate_vertical), sensitivity),
                           as_secs_f32(dt)))
    IN  [yaw |-> yaw,
         pitch |-> IF RSign(RSub(pitch, RNeg(FRAC_PI_2))) < 0
                   THEN RNeg(FRAC_PI_2)
                   ELSE IF RSign(RSub(pitch, FRAC_PI_2)) > 0
                   THEN FRAC_PI_2
                   ELSE pitch]

\* update that advances the bodies by the time since the start rather
\* than by dt
update_reading_clock(dt) ==
    /\ ticks < MaxTicks
    /\ LET r == tick(bodies, dt + last_update)
       IN  /\ Representable(r.bodies)
           /\ bodies' = r.bodies
           /\ log' = r.log
    /\ prev' = bodies
    /\ lastDt' = dt
    /\ ticks' = ticks + 1
    /\ elapsed' = elapsed + dt
    /\ camera_controller' = update_camera(camera_controller)
    /\ camera' = update_camera_angles(camera, camera_controller, dt)
    /\ UNCHANGED started

\* State::update(dt)
update(dt) ==
    /\ ticks < MaxTicks
    /\ LET r == tick(bodies, dt)
       IN  /\ Representable(r.bodies)
           /\ bodies' = r.bodies
           /\ log' = r.log
    /\ prev' = bodies
    /\ lastDt' = dt
    /\ ticks' = ticks + 1
    /\ elapsed' = elapsed + dt
    /\ camera_controller' = update_camera(camera_controller)
    /\ camera' = update_camera_angles(camera, camera_controller, dt)
    /\ UNCHANGED started

\* a frame: the simulation advances by the time since the last frame
Frame ==
    \E dt \in Dts :
        /\ update(dt)
        /\ UNCHANGED <<size, mouse_pressed, loopVars, astro, pipelineVars>>

Next == Frame

Spec == Init /\ [][Next]_vars

\* a session of exactly two bodies
InitPair == InitFrom(BodySetsOf(2, {1}))

SpecPair == InitPair /\ [][Next]_vars

\* a session of exactly one body
InitSingle == InitFrom(BodySetsOf(1, Radii))

SpecSingle == InitSingle /\ [][Next]_vars

\* three bodies of unit mass at rest on the x axis
AtRest(n) == [1..n -> [mass : {1}, radius : {1}, x : Coords, v : {0}]]

InitTriple == InitFrom(AtRest(NumBodies))

SpecTriple == InitTriple /\ [][Next]_vars

----------------------------------------------------------------------------
(* CBody::new applied to arbitrary arguments, as State::new pushes bodies *)

NewMasses == (-1)..MaxMass
NewRadii == (-1)..MaxRadius

\* bodies.push(CBody::new(..)) with the given mass and radius
push(mass, radius) ==
    /\ Len(bodies) < NumBodies
    /\ bodies' = Append(bodies,
                        CBody_new(Len(bodies) + 1, FromInt(mass), FromInt(radius),
                                  OnAxis(Len(bodies)), ZeroVec))
    /\ started' = bodies'
    /\ prev' = bodies'
    /\ UNCHANGED <<lastDt, log, ticks, elapsed, stateVars, loopVars, astro,
                   pipelineVars>>

InitNew ==
    /\ bodies = <<>>
    /\ started = <<>>
    /\ prev = <<>>
    /\ lastDt = 0
    /\ log = <<>>
    /\ ticks = 0
    /\ elapsed = 0
    /\ InitRest

NextNew == \E mass \in NewMasses, radius \in NewRadii : push(mass, radius)

SpecNew == InitNew /\ [][NextNew]_vars

\* ---------------------------------------------------------------------
\* State::new: the three bodies of the scene

MaxInit == 4

InitMasses == 1..MaxInit
Orbits == 1..MaxInit

\* State_new with the orbiting bodies moving along the radius
State_new_radial(sun_mass, planet_mass, planet_orbit, moon_orbit) ==
    LET sun == CBody_new("Main Star", FromInt(sun_mass), FromInt(32),
                         ZeroVec, ZeroVec)
        planet == CBody_new("Planet", FromInt(planet_mass), FromInt(12),
                            Vector3(FromInt(planet_orbit), Zero, Zero),
                            Vector3(RNeg(calculate_velocity_at_radius(
                                             sun, FromInt(planet_orbit))),
                                    Zero, Zero))
        moon == CBody_new("Moon", <<1, 10>>, FromInt(2),
                          Vector3(RAdd(FromInt(planet_orbit), FromInt(moon_orbit)),
                                  Zero, Zero),
                          Vector3(RNeg(calculate_velocity_at_radius(
                                           planet, FromInt(moon_orbit))),
                                  Zero, Zero))
    IN  <<sun, planet, moon>>

\* the bodies State::new builds and pushes (state.rs 137-185).  The masses
\* of the star and the planet and the two orbit radii, which the code gives
\* as 1000000, 10000, 200 and 12, are parameters: the circular velocity is
\* a square root, exact only for some of them.
State_new(sun_mass, planet_mass, planet_orbit, moon_orbit) ==
    LET sun == CBody_new("Main Star", FromInt(sun_mass), FromInt(32),
                         ZeroVec, ZeroVec)
        planet == CBody_new("Planet", FromInt(planet_mass), FromInt(12),
                            Vector3(FromInt(planet_orbit), Zero, Zero),
                            Vector3(Zero, Zero,
                                    RNeg(calculate_velocity_at_radius(
                                             sun, FromInt(planet_orbit)))))
        moon == CBody_new("Moon", <<1, 10>>, FromInt(2),
                          Vector3(RAdd(FromInt(planet_orbit), FromInt(moon_orbit)),
                                  Zero, Zero),
                          Vector3(Zero, Zero,
                                  RNeg(calculate_velocity_at_radius(
                                           planet, FromInt(moon_orbit)))))
    IN  <<sun, planet, moon>>

\* State::new runs once
StateNew ==
    /\ bodies = <<>>
    /\ \E sun_mass \in InitMasses, planet_mass \in InitMasses,
          planet_orbit \in Orbits, moon_orbit \in Orbits :
           bodies' = State_new(sun_mass, planet_mass, planet_orbit, moon_orbit)
    /\ started' = bodies'
    /\ prev' = bodies'
    /\ UNCHANGED <<lastDt, log, ticks, elapsed, stateVars, loopVars, astro,
                   pipelineVars>>

SpecState == InitNew /\ [][StateNew]_vars

\* ---------------------------------------------------------------------
\* RenderPipelineBuilder, which State::new uses for its two pipelines

MaxShader == 2
MaxPipelines == 2

Shaders == 1..MaxShader
Layouts == {"render_pipeline_layout"}
Topologies == {"TriangleList", "LineList"}

notBuilderVars == <<bodyVars, stateVars, loopVars, astro>>

\* RenderPipelineBuilder::with_layout
with_layout(layout) ==
    /\ builder' = [builder EXCEPT !.layout = Some(layout)]
    /\ UNCHANGED <<build_result, created, notBuilderVars>>

\* RenderPipelineBuilder::with_vertex_shader
with_vertex_shader(vertex_shader) ==
    /\ builder' = [builder EXCEPT !.vertex_shader_source = Some(vertex_shader)]
    /\ UNCHANGED <<build_result, created, notBuilderVars>>

\* RenderPipelineBuilder::with_fragment_shader
with_fragment_shader(fragment_shader) ==
    /\ builder' =
           [builder EXCEPT !.fragment_shader_source = Some(fragment_shader)]
    /\ UNCHANGED <<build_result, created, notBuilderVars>>

\* RenderPipelineBuilder::with_topology
with_topology(topology) ==
    /\ builder' = [builder EXCEPT !.primitive_topology = topology]
    /\ UNCHANGED <<build_result, created, notBuilderVars>>

Err(message) == [ok |-> FALSE, message |-> message]

\* the pipeline device.create_render_pipeline makes from the builder
Pipeline(b) ==
    [ok |-> TRUE, layout |-> b.layout[1], vertex |-> b.vertex_shader_source[1],
     fragment |-> b.fragment_shader_source[1],
     topology |-> b.primitive_topology]

\* build that reads the shader sources and leaves them in the builder
build_keeping_shaders ==
    /\ created < MaxPipelines
    /\ IF builder.layout = None
       THEN /\ build_result' = Err("No pipeline layout was supplied!")
            /\ UNCHANGED <<builder, created>>
       ELSE IF builder.vertex_shader_source = None
       THEN /\ build_result' = Err("No vertex shader supplied!")
            /\ UNCHANGED <<builder, created>>
       ELSE IF builder.fragment_shader_source = None
       THEN /\ build_result' = Err("No fragment shader supplied!")
            /\ UNCHANGED <<builder, created>>
       ELSE /\ build_result' = Pipeline(builder)
            /\ created' = created + 1
            /\ UNCHANGED builder
    /\ UNCHANGED notBuilderVars

\* RenderPipelineBuilder::build
build ==
    /\ created < MaxPipelines
    /\ IF builder.layout = None
       THEN /\ build_result' = Err("No pipeline layout was supplied!")
            /\ UNCHANGED <<builder, created>>
       ELSE IF builder.vertex_shader_source = None
       THEN /\ build_result' = Err("No vertex shader supplied!")
            /\ UNCHANGED <<builder, created>>
       ELSE IF builder.fragment_shader_source = None
       THEN /\ build_result' = Err("No fragment shader supplied!")
            /\ UNCHANGED <<builder, created>>
       ELSE /\ build_result' = Pipeline(builder)
            /\ created' = created + 1
            /\ builder' = [builder EXCEPT !.vertex_shader_source = None,
                                          !.fragment_shader_source = None]
    /\ UNCHANGED notBuilderVars

WithLayout == \E layout \in Layouts : with_layout(layout)

WithVertexShader == \E vertex_shader \in Shaders : with_vertex_shader(vertex_shader)

WithFragmentShader ==
    \E fragment_shader \in Shaders : with_fragment_shader(fragment_shader)

WithTopology == \E topology \in Topologies : with_topology(topology)

NextPipeline ==
    \/ WithLayout
    \/ WithVertexShader
    \/ WithFragmentShader
    \/ WithTopology
    \/ build

SpecPipeline == InitNew /\ [][NextPipeline]_vars

\* ---------------------------------------------------------------------
\* The astrodynamics values of one body

MaxAstro == 9

AstroMasses == 1..MaxAstro
AstroRadii == 0..MaxAstro

InitAstro ==
    InitFrom([1..1 -> [mass : AstroMasses, radius : AstroRadii, x : {0}, v : {0}]])

\* State::render shows b.escape_velocity() (state.rs 357-360)
ShowEscapeVelocity ==
    /\ \E k \in DOMAIN bodies :
           LET value == escape_velocity(bodies[k])
           IN  /\ ~IsUnrep(value)
               /\ astro' = [fn |-> "escape_velocity", body |-> bodies[k],
                            value |-> value]
    /\ UNCHANGED <<bodyVars, stateVars, loopVars, pipelineVars>>

\* State::new asks a body for its circular velocity at a radius
\* (state.rs 168, 178)
AskVelocityAtRadius ==
    /\ \E k \in DOMAIN bodies, r \in AstroRadii :
           LET value == calculate_velocity_at_radius(bodies[k], FromInt(r))
           IN  /\ ~IsUnrep(value)
               /\ astro' = [fn |-> "calculate_velocity_at_radius",
                            body |-> bodies[k], r |-> FromInt(r),
                            value |-> value]
    /\ UNCHANGED <<bodyVars, stateVars, loopVars, pipelineVars>>

NextAstro == ShowEscapeVelocity \/ AskVelocityAtRadius

SpecAstro == InitAstro /\ [][NextAstro]_vars

\* ---------------------------------------------------------------------
\* The other methods of State and the event loop of main

MaxSize == 2
MaxDelta == 1

Sizes == (1..MaxSize) \X (1..MaxSize)
Deltas == 0..MaxDelta
ElementStates == {"Pressed", "Released"}

\* the keys the events carry: one the camera controller knows, Escape, and
\* one that nothing handles
Keys == {"W", "Escape", "F1"}

WindowEvents ==
    {[type |-> "CloseRequested"], [type |-> "Focused"]}
    \cup [type : {"KeyboardInput"}, state : ElementStates, virtual_keycode : Keys]
    \cup [type : {"Resized", "ScaleFactorChanged"}, size : Sizes]

DeviceEvents ==
    {[type |-> "Added"]}
    \cup [type : {"Button"}, button : {1, 2}, state : ElementStates]
    \cup [type : {"MouseMotion"}, delta : {<<d, d>> : d \in Deltas}]

\* what swap_chain.get_current_frame gives State::render
SwapChainResults == {"Ok", "Lost", "OutOfMemory", "Outdated", "Timeout"}

MovementKeys == {"Space", "LShift", "W", "A", "S", "D"}

\* CameraController::process_keyboard: the flag of a movement key follows
\* the key; every other event is not consumed
process_keyboard(cc, ev) ==
    IF ev.type = "KeyboardInput" /\ ev.virtual_keycode \in MovementKeys
    THEN [consumed |-> TRUE,
          cc |-> [cc EXCEPT !.moving =
                      IF ev.state = "Pressed"
                      THEN @ \cup {ev.virtual_keycode}
                      ELSE @ \ {ev.virtual_keycode}]]
    ELSE [consumed |-> FALSE, cc |-> cc]

\* CameraController::process_mouse
process_mouse(cc, mouse_dx, mouse_dy) ==
    [cc EXCEPT !.rotate_horizontal = mouse_dx, !.rotate_vertical = mouse_dy]

\* State::resize(new_size)
resize(new_size) == size' = new_size

\* State::input(event)
input(ev) == camera_controller' = process_keyboard(camera_controller, ev).cc

\* State::device_input(event)
device_input(ev) ==
    /\ mouse_pressed' =
           IF ev.type = "Button" /\ ev.button = 1
           THEN ev.state = "Pressed"
           ELSE mouse_pressed
    /\ camera_controller' =
           IF ev.type = "MouseMotion"
           THEN process_mouse(camera_controller, ev.delta[1], ev.delta[2])
           ELSE camera_controller

\* State::render: it reads the bodies and the camera and draws; the frame
\* it asks the swap chain for decides the result
render(result) == result \in SwapChainResults

Call(fn) == [fn |-> fn]

callerVars ==
    <<last_update, control_flow, redraw_pending, event, astro, pipelineVars>>

\* a caller invokes one method of State
CallUpdate ==
    \E dt \in Dts :
        /\ update(dt)
        /\ calls' = <<[fn |-> "update", dt |-> dt]>>
        /\ UNCHANGED <<size, mouse_pressed, callerVars>>

CallRender ==
    \E result \in SwapChainResults :
        /\ render(result)
        /\ calls' = <<[fn |-> "render", result |-> result]>>
        /\ UNCHANGED <<bodyVars, stateVars, callerVars>>

CallInput ==
    \E ev \in WindowEvents :
        /\ input(ev)
        /\ calls' = <<Call("input")>>
        /\ UNCHANGED <<bodyVars, size, mouse_pressed, camera, callerVars>>

CallDeviceInput ==
    \E ev \in DeviceEvents :
        /\ device_input(ev)
        /\ calls' = <<Call("device_input")>>
        /\ UNCHANGED <<bodyVars, size, camera, callerVars>>

CallResize ==
    \E new_size \in Sizes :
        /\ resize(new_size)
        /\ calls' = <<Call("resize")>>
        /\ UNCHANGED <<bodyVars, mouse_pressed, camera_controller, camera,
                       callerVars>>

NextCalls ==
    \/ CallUpdate
    \/ CallRender
    \/ CallInput
    \/ CallDeviceInput
    \/ CallResize

\* n bodies of unit mass at rest, one unit apart on the x axis
Row(n) == {[k \in 1..n |-> [mass |-> 1, radius |-> 1, x |-> k - 1, v |-> 0]]}

InitCalls == InitFrom(Row(1))

SpecCalls == InitCalls /\ [][NextCalls]_vars

\* ---------------------------------------------------------------------
\* The camera controller between frames

MaxRotate == 8

\* vertical mouse deltas: none, a small one and one that turns past the
\* clamp, up and down
CameraDeltas == {-MaxRotate, -1, 0, 1, MaxRotate}

\* a caller hands a mouse delta to CameraController::process_mouse
MouseMoved ==
    /\ \E mouse_dx \in Deltas, mouse_dy \in CameraDeltas :
           camera_controller' = process_mouse(camera_controller, mouse_dx, mouse_dy)
    /\ UNCHANGED <<bodyVars, size, mouse_pressed, camera, loopVars, astro,
                   pipelineVars>>

\* a caller hands an event to CameraController::process_keyboard
KeyChanged ==
    /\ \E ev \in WindowEvents :
           camera_controller' = process_keyboard(camera_controller, ev).cc
    /\ UNCHANGED <<bodyVars, size, mouse_pressed, camera, loopVars, astro,
                   pipelineVars>>

\* State::update is the caller of update_camera
NextCamera == MouseMoved \/ KeyChanged \/ Frame

InitCamera == InitFrom(Row(1))

SpecCamera == InitCamera /\ [][NextCamera]_vars

\* ---------------------------------------------------------------------
\* The event loop of main

\* RedrawRequested that leaves last_update as it was
RedrawRequested_keeping_last_update ==
    /\ control_flow # "Exit"
    /\ redraw_pending
    /\ \E now \in last_update..(last_update + MaxDt), result \in SwapChainResults :
           LET dt == now - last_update
           IN  /\ last_update' = last_update
               /\ update(dt)
               /\ render(result)
               /\ IF result = "Lost" THEN resize(size) ELSE UNCHANGED size
               /\ control_flow' =
                      IF result = "OutOfMemory" THEN "Exit" ELSE control_flow
               /\ calls' =
                      <<[fn |-> "update", dt |-> dt],
                        [fn |-> "render", result |-> result]>>
                      \o (IF result = "Lost" THEN <<Call("resize")>> ELSE <<>>)
    /\ redraw_pending' = FALSE
    /\ event' = "RedrawRequested"
    /\ UNCHANGED <<mouse_pressed, astro, pipelineVars>>

\* main, Event::RedrawRequested
RedrawRequested ==
    /\ control_flow # "Exit"
    /\ redraw_pending
    /\ \E now \in last_update..(last_update + MaxDt), result \in SwapChainResults :
           LET dt == now - last_update
           IN  /\ last_update' = now
               /\ update(dt)
               /\ render(result)
               /\ IF result = "Lost" THEN resize(size) ELSE UNCHANGED size
               /\ control_flow' =
                      IF result = "OutOfMemory" THEN "Exit" ELSE control_flow
               /\ calls' =
                      <<[fn |-> "update", dt |-> dt],
                        [fn |-> "render", result |-> result]>>
                      \o (IF result = "Lost" THEN <<Call("resize")>> ELSE <<>>)
    /\ redraw_pending' = FALSE
    /\ event' = "RedrawRequested"
    /\ UNCHANGED <<mouse_pressed, astro, pipelineVars>>

\* main, Event::MainEventsCleared: window.request_redraw()
MainEventsCleared ==
    /\ control_flow # "Exit"
    /\ redraw_pending' = TRUE
    /\ event' = "MainEventsCleared"
    /\ calls' = <<>>
    /\ UNCHANGED <<bodyVars, stateVars, last_update, control_flow, astro,
                   pipelineVars>>

\* WindowEvent that exits on Escape whether pressed or released
WindowEvent_any_escape ==
    /\ control_flow # "Exit"
    /\ \E ev \in WindowEvents :
           LET consumed == process_keyboard(camera_controller, ev).consumed
               resized == ~consumed /\ ev.type \in {"Resized", "ScaleFactorChanged"}
               exits ==
                   /\ ~consumed
                   /\ \/ ev.type = "CloseRequested"
                      \/ /\ ev.type = "KeyboardInput"
                         /\ ev.virtual_keycode = "Escape"
           IN  /\ input(ev)
               /\ IF resized THEN resize(ev.size) ELSE UNCHANGED size
               /\ control_flow' = IF exits THEN "Exit" ELSE control_flow
               /\ calls' = <<[fn |-> "input", event |-> ev]>>
                           \o (IF resized THEN <<Call("resize")>> ELSE <<>>)
               /\ event' = "WindowEvent"
               /\ UNCHANGED <<bodyVars, mouse_pressed, camera, last_update,
                              redraw_pending, astro, pipelineVars>>

\* main, Event::WindowEvent of the window
WindowEvent ==
    /\ control_flow # "Exit"
    /\ \E ev \in WindowEvents :
           LET consumed == process_keyboard(camera_controller, ev).consumed
               resized == ~consumed /\ ev.type \in {"Resized", "ScaleFactorChanged"}
               exits ==
                   /\ ~consumed
                   /\ \/ ev.type = "CloseRequested"
                      \/ /\ ev.type = "KeyboardInput"
                         /\ ev.state = "Pressed"
                         /\ ev.virtual_keycode = "Escape"
           IN  /\ input(ev)
               /\ IF resized THEN resize(ev.size) ELSE UNCHANGED size
               /\ control_flow' = IF exits THEN "Exit" ELSE control_flow
               /\ calls' = <<[fn |-> "input", event |-> ev]>>
                           \o (IF resized THEN <<Call("resize")>> ELSE <<>>)
               /\ event' = "WindowEvent"
               /\ UNCHANGED <<bodyVars, mouse_pressed, camera, last_update,
                              redraw_pending, astro, pipelineVars>>

\* main, every other event: nothing is done
OtherEvent ==
    /\ control_flow # "Exit"
    /\ event' = "DeviceEvent"
    /\ calls' = <<>>
    /\ UNCHANGED <<bodyVars, stateVars, last_update, control_flow,
                   redraw_pending, astro, pipelineVars>>

\* event_loop.run: events are delivered until the control flow is Exit
NextLoop ==
    \/ RedrawRequested
    \/ MainEventsCleared
    \/ WindowEvent
    \/ OtherEvent

InitLoop == InitFrom(Row(2))

SpecLoop == InitLoop /\ [][NextLoop]_vars

----------------------------------------------------------------------------
(* Properties *)

Indices == 1..Len(bodies)

\* the log positions at which a pairwise acceleration was computed
AccEvents == {k \in 1..Len(log) : log[k].kind = "accumulate"}

VRep(a) == ~VHasUnrep(a)

BodyFinite(b) == VFinite(b.position) /\ VFinite(b.velocity)

\* the sum of the accelerations the log records for body i
RECURSIVE NetAcc(_, _)
NetAcc(lg, i) ==
    IF lg = <<>> THEN ZeroVec
    ELSE IF Head(lg).kind = "accumulate" /\ Head(lg).i = i
         THEN VAdd(Head(lg).acceleration, NetAcc(Tail(lg), i))
         ELSE NetAcc(Tail(lg), i)

\* the last tick began with finite bodies no two of which shared a position
StartedApart ==
    /\ ticks > 0
    /\ \A k \in DOMAIN prev : BodyFinite(prev[k])
    /\ \A i, j \in DOMAIN prev : i # j => prev[i].position # prev[j].position

Perms(n) == {f \in [1..n -> 1..n] : \A a, b \in 1..n : a # b => f[a] # f[b]}

\* C1: within a tick every position read for another body j is j's
\* start-of-tick position.
C1_ReadsStartOfTickPositions ==
    StartedApart =>
        \A k \in AccEvents : log[k].position2 = prev[log[k].j].position

\* C2: one tick of three bodies gives every body the same position and
\* velocity whatever the order in which the bodies are stored and processed.
C2_OrderIndependence ==
    (StartedApart /\ Len(prev) = 3) =>
        \A f \in Perms(3) :
            LET r == tick([k \in 1..3 |-> prev[f[k]]], lastDt).bodies
            IN  Representable(r) =>
                    \A k \in 1..3 : /\ r[k].position = bodies[f[k]].position
                                    /\ r[k].velocity = bodies[f[k]].velocity

\* C3: every acceleration of a tick is computed before the first write of a
\* velocity or a position in that tick.
C3_AccumulateThenApply ==
    \A a, b \in 1..Len(log) :
        (a < b /\ log[a].kind \in {"velocity", "integrate"})
            => log[b].kind # "accumulate"

\* C4: in a tick with elapsed time dt each body's velocity changes by its net
\* acceleration times dt.
C4_VelocityChangeIsAccelerationTimesDt ==
    StartedApart =>
        \A i \in Indices :
            LET dv == VMul(NetAcc(log, i), as_secs_f32(lastDt))
            IN  VRep(dv) => bodies[i].velocity = VAdd(prev[i].velocity, dv)

AltMasses == {<<n, d>> : n \in 1..(MaxMass + 1), d \in 1..2}

\* direction * G * mass_j / dist2, without the mass of body i
ReferenceAcceleration(position, position2, mass2) ==
    VDiv(VMul(normalize(VSub(position2, position)), RMul(G, mass2)),
         magnitude2(VSub(position2, position)))

\* C5: the acceleration a_ij that update adds to body i's velocity is
\* direction * G * mass_j / dist2 and is the same for every positive mass of
\* body i (wherever the model's arithmetic can represent the value).
C5_AccelerationIndependentOfOwnMass ==
    \A k \in AccEvents :
        LET e == log[k]
            body2 == [position |-> e.position2, mass |-> e.mass2]
            ref == ReferenceAcceleration(e.position, e.position2, e.mass2)
        IN  /\ VRep(ref) => e.acceleration = ref
            /\ \A m \in AltMasses :
                   LET a == pair([position |-> e.position, mass |-> m],
                                 body2).acceleration
                   IN  VRep(a) => a = e.acceleration

\* C5 witness: an acceleration that is finite and not zero was added to a
\* body whose own mass is not 1
C5_Witness ==
    \E k \in AccEvents :
        /\ log[k].mass # One
        /\ VFinite(log[k].acceleration)
        /\ log[k].acceleration # ZeroVec

\* C6: the force computed on i due to j and the force computed on j due to i
\* in the same tick are equal in magnitude and opposite in direction.
C6_NewtonThirdLaw ==
    StartedApart =>
        \A a, b \in AccEvents :
            (log[a].i = log[b].j /\ log[a].j = log[b].i)
                => log[a].force = VNeg(log[b].force)

\* C7: a tick that starts with two bodies at the same position skips that
\* pair and leaves every position and velocity finite.
C7_DegenerateDistanceGuard ==
    (/\ ticks > 0
     /\ \A k \in DOMAIN prev : BodyFinite(prev[k])
     /\ \E i, j \in DOMAIN prev : i # j /\ prev[i].position = prev[j].position)
        => \A k \in Indices : BodyFinite(bodies[k])

\* C9: no body of the body set has a mass or a radius that is not positive.
C9_NewRejectsNonPositive ==
    \A k \in Indices : RSign(bodies[k].mass) > 0 /\ RSign(bodies[k].radius) > 0

\* C10 as stated: with one body, position and velocity keep their initial
\* values after any number of ticks.
C10_SingleBodyStaysPut ==
    Len(bodies) = 1 =>
        /\ AccEvents = {}
        /\ bodies[1].velocity = started[1].velocity
        /\ bodies[1].position = started[1].position

\* C10 amended: with one body no acceleration is ever computed and the
\* velocity keeps its initial value; the position is the initial position
\* plus the velocity times the elapsed time, so it stays put exactly when
\* that product is zero.
C10_SingleBodyUniformMotion ==
    Len(bodies) = 1 =>
        /\ AccEvents = {}
        /\ bodies[1].velocity = started[1].velocity
        /\ bodies[1].position =
               VAdd(started[1].position,
                    VMul(started[1].velocity, FromInt(elapsed)))

\* C10 witness: a single moving body after two ticks of positive dt
C10_Witness ==
    /\ Len(bodies) = 1
    /\ ticks >= 2
    /\ lastDt > 0
    /\ elapsed > lastDt
    /\ bodies[1].velocity # ZeroVec

\* C11: the bodies after a tick are a function of the bodies before it and
\* of dt alone, whatever the window, the camera controller, the clock and
\* the render results are, and no step but a tick changes the bodies.
C11_TickDependsOnBodiesAndDt ==
    [][IF ticks' = ticks + 1
       THEN bodies' = tick(bodies, lastDt').bodies
       ELSE bodies' = bodies]_vars

\* C11 witness: two ticks moved a body while a key was pressed and the
\* window was resized
C11_Witness ==
    /\ ticks = 2
    /\ last_update = 2
    /\ BodyFinite(bodies[1])
    /\ bodies[1].position # started[1].position
    /\ camera_controller.moving # {}
    /\ size # <<1, 1>>

\* the names of the bodies, in order
Names(bs) == [k \in DOMAIN bs |-> bs[k].name]

\* C12: whatever methods of State are called, the body set keeps its size
\* and the bodies keep their names and their order.
C12_BodySetFixed ==
    /\ Len(bodies) = Len(started)
    /\ Names(bodies) = Names(started)

\* C12 witness: every method has been called: a tick ran, a key is held,
\* the mouse button is down, the window was resized, and render came last
C12_Witness ==
    /\ ticks > 0
    /\ camera_controller.moving # {}
    /\ mouse_pressed
    /\ size # <<1, 1>>
    /\ calls # <<>> /\ calls[1].fn = "render"

\* C13: in every state every body has a positive mass and a positive
\* radius, and mass, radius and name are what they were at the start.
C13_MassRadiusNameKept ==
    \A k \in Indices :
        /\ RSign(bodies[k].mass) = 1 /\ IsFinite(bodies[k].mass)
        /\ RSign(bodies[k].radius) = 1 /\ IsFinite(bodies[k].radius)
        /\ bodies[k].mass = started[k].mass
        /\ bodies[k].radius = started[k].radius
        /\ bodies[k].name = started[k].name

\* C13 witness: two ticks have written a velocity and a position
C13_Witness ==
    /\ ticks = MaxTicks
    /\ \E k \in Indices :
           /\ BodyFinite(bodies[k])
           /\ bodies[k].velocity # started[k].velocity
           /\ bodies[k].position # started[k].position

\* the accumulate events of body i in the log
AccEventsOf(i) == {k \in AccEvents : log[k].i = i}

\* the integrate events of body i in the log
IntEventsOf(i) ==
    {k \in 1..Len(log) : log[k].kind = "integrate" /\ log[k].i = i}

\* C16: in a tick body i receives exactly one contribution from every other
\* body and none from itself, and its velocity changes by their sum.
C16_PairCoverage ==
    ticks > 0 =>
        \A i \in Indices :
            /\ Cardinality(AccEventsOf(i)) = Len(bodies) - 1
            /\ \A j \in Indices \ {i} :
                   Cardinality({k \in AccEventsOf(i) : log[k].j = j}) = 1
            /\ \A k \in AccEventsOf(i) : log[k].j # i
            /\ LET sum == VAdd(prev[i].velocity, NetAcc(log, i))
               IN  VRep(sum) => bodies[i].velocity = sum

\* C16 witness: a tick of three bodies in which the first body and the last
\* body were given accelerations that are finite and not zero
C16_Witness ==
    /\ ticks > 0
    /\ Len(bodies) = NumBodies
    /\ \A i \in {1, NumBodies} :
           VFinite(NetAcc(log, i)) /\ NetAcc(log, i) # ZeroVec

\* C17: in a tick body.update is called exactly once for every body, with
\* the dt of the tick, when the body holds its own accumulated velocity.
C17_UpdateOncePerBody ==
    ticks > 0 =>
        \A i \in Indices :
            /\ Cardinality(IntEventsOf(i)) = 1
            /\ \A k \in IntEventsOf(i) :
                   /\ log[k].dt = lastDt
                   /\ LET own == VAdd(prev[i].velocity, NetAcc(log, i))
                      IN  VRep(own) => log[k].velocity = own

\* C17 witness: a tick of three bodies with positive dt that moved the last
C17_Witness ==
    /\ ticks > 0
    /\ lastDt > 0
    /\ Len(bodies) = NumBodies
    /\ BodyFinite(bodies[NumBodies])
    /\ bodies[NumBodies].position # prev[NumBodies].position

\* C18: every velocity write of body i in a tick comes before its
\* body.update, and the position moves by the new velocity times dt.
C18_SemiImplicitEuler ==
    ticks > 0 =>
        \A i \in Indices :
            /\ \A k \in 1..Len(log), m \in IntEventsOf(i) :
                   (log[k].kind = "velocity" /\ log[k].i = i) => k < m
            /\ LET moved == VAdd(prev[i].position,
                                 VMul(bodies[i].velocity, as_secs_f32(lastDt)))
               IN  VRep(moved) => bodies[i].position = moved

\* C18 witness: a tick with positive dt changed a body's velocity, so that
\* moving by the old velocity would have led elsewhere
C18_Witness ==
    /\ ticks > 0
    /\ lastDt > 0
    /\ \E i \in Indices :
           /\ BodyFinite(bodies[i])
           /\ bodies[i].velocity # prev[i].velocity
           /\ bodies[i].position #
                  VAdd(prev[i].position,
                       VMul(prev[i].velocity, as_secs_f32(lastDt)))

\* C14: the escape velocity v shown for a body of positive radius is not
\* negative and has v * v * radius = 2 * G * mass.
C14_EscapeVelocity ==
    (astro.fn = "escape_velocity" /\ RSign(astro.body.radius) = 1) =>
        /\ IsFinite(astro.value) /\ RSign(astro.value) >= 0
        /\ RMul(RMul(astro.value, astro.value), astro.body.radius)
               = RMul(FromInt(2), RMul(G, astro.body.mass))

\* C14 witness: an escape velocity other than 0 and 1 was shown
C14_Witness ==
    /\ astro.fn = "escape_velocity"
    /\ RSign(astro.body.radius) = 1
    /\ IsFinite(astro.value)
    /\ astro.value \notin {Zero, One}

\* C15: the circular velocity v of a body at a radius r > 0 is not negative
\* and has v * v * r = G * mass.
C15_CircularVelocity ==
    (astro.fn = "calculate_velocity_at_radius" /\ RSign(astro.r) = 1) =>
        /\ IsFinite(astro.value) /\ RSign(astro.value) >= 0
        /\ RMul(RMul(astro.value, astro.value), astro.r)
               = RMul(G, astro.body.mass)

\* C15 witness: a circular velocity other than 0 and 1 was computed
C15_Witness ==
    /\ astro.fn = "calculate_velocity_at_radius"
    /\ RSign(astro.r) = 1
    /\ IsFinite(astro.value)
    /\ astro.value \notin {Zero, One}

\* Vector3::dot
dot(a, b) == RAdd(RAdd(RMul(a[1], b[1]), RMul(a[2], b[2])), RMul(a[3], b[3]))

\* body moves on a circular orbit around parent: its speed is the circular
\* velocity of parent at their distance, at a right angle to the radius
OrbitsCircularly(body, parent) ==
    LET radial == VSub(body.position, parent.position)
    IN  /\ magnitude(body.velocity)
               = calculate_velocity_at_radius(parent, magnitude(radial))
        /\ dot(body.velocity, radial) = Zero

\* C19: once State::new has built the bodies the star rests at the origin,
\* the planet orbits the star circularly and the moon the planet.
C19_InitialOrbits ==
    (bodies # <<>> /\ Representable(bodies)) =>
        /\ Names(bodies) = <<"Main Star", "Planet", "Moon">>
        /\ bodies[1].position = ZeroVec /\ bodies[1].velocity = ZeroVec
        /\ OrbitsCircularly(bodies[2], bodies[1])
        /\ OrbitsCircularly(bodies[3], bodies[2])

\* C19 witness: the bodies are built, and planet and moon move at
\* different speeds, neither of them zero
C19_Witness ==
    /\ bodies # <<>>
    /\ Representable(bodies)
    /\ bodies[2].velocity # ZeroVec
    /\ bodies[3].velocity # ZeroVec
    /\ bodies[2].velocity # bodies[3].velocity

\* the indices of the calls of fn in a list of calls
CallsOf(cs, fn) == {k \in DOMAIN cs : cs[k].fn = fn}

\* C20: a RedrawRequested event calls update once and then render once,
\* with dt the time since last_update, which becomes now; every other
\* event calls no update and leaves the simulation and last_update alone.
C20_RedrawRunsOneTick ==
    [][IF event' = "RedrawRequested"
       THEN /\ Len(calls') >= 2
            /\ CallsOf(calls', "update") = {1}
            /\ CallsOf(calls', "render") = {2}
            /\ last_update' >= last_update
            /\ calls'[1].dt = last_update' - last_update
            /\ lastDt' = calls'[1].dt
            /\ ticks' = ticks + 1
       ELSE /\ CallsOf(calls', "update") = {}
            /\ CallsOf(calls', "render") = {}
            /\ UNCHANGED <<bodyVars, last_update>>]_vars

\* C20 witness: the second redraw, a second after the first, which itself
\* came a second after the start
C20_Witness ==
    /\ event = "RedrawRequested"
    /\ ticks = 2
    /\ lastDt = 1
    /\ last_update = 2

\* C24: a call of update_camera leaves the pitch within [-pi/2, pi/2] and
\* the pending rotation at zero, having added the rotation that was pending
\* to the yaw once.
C24_PitchClampedRotationReset ==
    [][ticks' = ticks + 1 =>
           /\ RSign(RSub(camera'.pitch, RNeg(FRAC_PI_2))) >= 0
           /\ RSign(RSub(FRAC_PI_2, camera'.pitch)) >= 0
           /\ camera_controller'.rotate_horizontal = 0
           /\ camera_controller'.rotate_vertical = 0
           /\ camera'.yaw =
                  RAdd(camera.yaw,
                       RMul(RMul(FromInt(camera_controller.rotate_horizontal),
                                 sensitivity),
                            as_secs_f32(lastDt')))]_vars

\* C24 witness: after two updates the pitch sits on the upper clamp, the
\* yaw has turned, and no rotation is pending while a key is held
C24_Witness ==
    /\ ticks = 2
    /\ lastDt = 1
    /\ camera.pitch = FRAC_PI_2
    /\ camera.yaw # Camera_new.yaw
    /\ camera_controller.rotate_vertical = 0
    /\ camera_controller.moving # {}

\* C21: in a tick the bodies are integrated in index order, each right
\* after its own velocity writes, and body i reads the position the tick
\* has already given to every body before it and the position every body
\* after it had when the tick began.
C21_SequentialSweep ==
    ticks > 0 =>
        /\ \A k, m \in 1..Len(log) :
               (k < m /\ log[k].kind = "integrate" /\ log[m].kind = "integrate")
                   => log[k].i < log[m].i
        /\ \A i \in Indices :
               /\ \A k \in AccEventsOf(i), m \in IntEventsOf(i) : k < m
               /\ \A j \in Indices \ {i} :
                      \A k \in AccEventsOf(i), m \in IntEventsOf(j) :
                          (j < i) <=> (m < k)
        /\ \A k \in AccEvents :
               log[k].position2 =
                   IF log[k].j < log[k].i
                   THEN bodies[log[k].j].position
                   ELSE prev[log[k].j].position

\* C21 witness: a tick of three bodies moved the first, so that the second
\* and the third read a position of it that is not the one it started with
C21_Witness ==
    /\ ticks > 0
    /\ lastDt > 0
    /\ Len(bodies) = NumBodies
    /\ BodyFinite(bodies[1])
    /\ bodies[1].position # prev[1].position
    /\ \E k \in AccEvents :
           /\ log[k].j = 1
           /\ log[k].position2 # prev[1].position

\* the state of a tick after the iteration of body i alone
IterationOf(i, dt) == iteration([bodies |-> bodies, log |-> <<>>], i, dt)

\* C22: the iteration of body i leaves every other body as it was, leaves
\* the body set of the same size and body i with its mass, radius and name,
\* reads the same position of body i in all its pairs, and runs for indices
\* of the body set only.
C22_IterationWritesOwnBodyOnly ==
    /\ \A i \in Indices, dt \in Dts :
           LET r == IterationOf(i, dt)
           IN  /\ Len(r.bodies) = Len(bodies)
               /\ \A k \in Indices \ {i} : r.bodies[k] = bodies[k]
               /\ r.bodies[i].mass = bodies[i].mass
               /\ r.bodies[i].radius = bodies[i].radius
               /\ r.bodies[i].name = bodies[i].name
               /\ \A k \in 1..Len(r.log) :
                      r.log[k].kind = "accumulate"
                          => r.log[k].position = bodies[i].position
    /\ \A k \in 1..Len(log) : log[k].i \in Indices
    /\ \A k \in AccEvents : log[k].position = prev[log[k].i].position

\* C22 witness: three bodies apart after a tick, for which the iteration of
\* the middle body changes the middle body
C22_Witness ==
    /\ ticks > 0
    /\ Len(bodies) = NumBodies
    /\ \A k \in Indices : BodyFinite(bodies[k])
    /\ \E dt \in Dts : BodyFinite(IterationOf(2, dt).bodies[2])
                       /\ IterationOf(2, dt).bodies[2] # bodies[2]

\* C23: the control flow becomes Exit exactly on a CloseRequested window
\* event, on a pressed Escape key and on a render that is out of memory; a
\* lost swap chain is followed by resize with the size as it is, any other
\* render result by nothing; MainEventsCleared asks for a redraw and
\* exits nothing.
C23_ExitConditions ==
    [][LET exits == control_flow' = "Exit"
           ev == calls'[1].event
       IN  /\ event' = "WindowEvent" =>
                  (exits <=> \/ ev.type = "CloseRequested"
                             \/ /\ ev.type = "KeyboardInput"
                                /\ ev.state = "Pressed"
                                /\ ev.virtual_keycode = "Escape")
           /\ event' = "RedrawRequested" =>
                  /\ exits <=> calls'[2].result = "OutOfMemory"
                  /\ CallsOf(calls', "resize") =
                         IF calls'[2].result = "Lost" THEN {3} ELSE {}
                  /\ size' = size
           /\ event' = "MainEventsCleared" => (redraw_pending' /\ ~exits)
           /\ event' = "DeviceEvent" => (~exits /\ calls' = <<>>)]_vars

\* C23 witness: two frames ran, the second after MainEventsCleared asked
\* for it, and then a pressed Escape key ended the loop
C23_Witness ==
    /\ control_flow = "Exit"
    /\ ticks = 2
    /\ event = "WindowEvent"
    /\ calls[1].event.type = "KeyboardInput"

\* what build has to return for a builder that lacks something
Missing(b) ==
    IF b.layout = None THEN Err("No pipeline layout was supplied!")
    ELSE IF b.vertex_shader_source = None THEN Err("No vertex shader supplied!")
    ELSE IF b.fragment_shader_source = None
    THEN Err("No fragment shader supplied!")
    ELSE [ok |-> TRUE]

\* C25: a build with the layout, the vertex shader or the fragment shader
\* unset returns the error of the first of them that is unset and creates
\* no pipeline; a build that succeeds leaves the builder without shader
\* sources, so that the next build returns "No vertex shader supplied!"
\* unless a vertex shader was supplied again.
C25_BuildErrorsAndConsumption ==
    [][(build_result' # build_result \/ created' # created) =>
           /\ ~Missing(builder).ok =>
                  /\ build_result' = Missing(builder)
                  /\ created' = created
                  /\ builder' = builder
           /\ Missing(builder).ok =>
                  /\ build_result'.ok
                  /\ Some(build_result'.vertex) = builder.vertex_shader_source
                  /\ Some(build_result'.fragment) = builder.fragment_shader_source
                  /\ created' = created + 1
                  /\ builder'.vertex_shader_source = None
                  /\ builder'.fragment_shader_source = None
                  /\ Missing(builder') = Err("No vertex shader supplied!")]_vars

\* C25 witness: a pipeline was built and the build after it, for which only
\* a fragment shader was supplied again, failed for the vertex shader
C25_Witness ==
    /\ created = 1
    /\ build_result = Err("No vertex shader supplied!")
    /\ builder.layout # None
    /\ builder.vertex_shader_source = None
    /\ builder.fragment_shader_source # None

====
